---- MODULE Spec2Model ----
(***************************************************************************)
(* Model of in_progress/new_web.py: a single-threaded HTTP file server.    *)
(* main() accepts one connection at a time, reads one chunk of request     *)
(* bytes, parses the headers and the start line, negotiates on the Accept  *)
(* header, and answers 406, 404 or 200 with the file's bytes.              *)
(*                                                                         *)
(* Byte strings are TLA+ strings; Ch(s, i) is the i-th byte.  An uncaught  *)
(* Python exception ends the process: pc = "fault", with the exception's   *)
(* name in fault.                                                          *)
(***************************************************************************)
EXTENDS Integers, Sequences, FiniteSets, TLC

(***************************************************************************)
(* Bounds of the model.                                                    *)
(***************************************************************************)
\* connections the listener accepts in one run
MaxRequests == 2
\* changes the environment makes to the filesystem in one run
MaxFsChanges == 1

(***************************************************************************)
(* Python str primitives used by the program.                              *)
(***************************************************************************)
Ch(s, i) == SubSeq(s, i, i)

Min(S) == CHOOSE x \in S : \A y \in S : x <= y

Max(S) == CHOOSE x \in S : \A y \in S : x >= y

\* indices at which the one-byte string c occurs in s
Positions(s, c) == {i \in 1..Len(s) : Ch(s, i) = c}

\* s.split(sep) for a one-byte separator: always Cardinality(Positions) + 1
\* pieces, empty pieces kept
str_split_on(s, sep) ==
    LET idx == Positions(s, sep)
        n == Cardinality(idx)
        P(k) == IF k = 0 THEN 0
                ELSE IF k = n + 1 THEN Len(s) + 1
                ELSE CHOOSE i \in idx : Cardinality({j \in idx : j < i}) = k - 1
    IN [k \in 1..(n + 1) |-> SubSeq(s, P(k - 1) + 1, P(k) - 1)]

\* the bytes str.split() and str.strip() treat as whitespace
Whitespace == {" ", "\t", "\n", "\r", "\f"}

IsWs(c) == c \in Whitespace

\* s.split() with no argument: the maximal runs of non-whitespace bytes
str_split(s) ==
    LET starts == {i \in 1..Len(s) :
                     ~IsWs(Ch(s, i)) /\ (i = 1 \/ IsWs(Ch(s, i - 1)))}
        n == Cardinality(starts)
        S(k) == CHOOSE i \in starts : Cardinality({j \in starts : j < i}) = k - 1
        E(i) == Min({j \in i..Len(s) : j = Len(s) \/ IsWs(Ch(s, j + 1))})
    IN [k \in 1..n |-> SubSeq(s, S(k), E(S(k)))]

\* s.strip()
str_strip(s) ==
    LET keep == {i \in 1..Len(s) : ~IsWs(Ch(s, i))}
    IN IF keep = {} THEN "" ELSE SubSeq(s, Min(keep), Max(keep))

\* s.partition(sep) for a one-byte separator
str_partition(s, sep) ==
    LET idx == Positions(s, sep)
    IN IF idx = {} THEN <<s, "", "">>
       ELSE <<SubSeq(s, 1, Min(idx) - 1), sep, SubSeq(s, Min(idx) + 1, Len(s))>>

UpperCase == "ABCDEFGHIJKLMNOPQRSTUVWXYZ"

LowerCase == "abcdefghijklmnopqrstuvwxyz"

lower_ch(c) ==
    IF Positions(UpperCase, c) = {} THEN c
    ELSE Ch(LowerCase, Min(Positions(UpperCase, c)))

\* s.lower()
RECURSIVE str_lower(_)
str_lower(s) ==
    IF Len(s) = 0 THEN ""
    ELSE lower_ch(Ch(s, 1)) \o str_lower(SubSeq(s, 2, Len(s)))

\* sub in s
str_contains(s, sub) ==
    \E i \in 0..(Len(s) - Len(sub)) : SubSeq(s, i + 1, i + Len(sub)) = sub

Digits == "0123456789"

\* '{}'.format(n) for a non-negative integer
RECURSIVE str_of_int(_)
str_of_int(n) ==
    IF n < 10 THEN Ch(Digits, n + 1)
    ELSE str_of_int(n \div 10) \o Ch(Digits, (n % 10) + 1)

\* the last '.' of the whole path and what follows it
splitext_last_dot(p) ==
    LET dots == Positions(p, ".")
    IN IF dots = {} THEN "" ELSE SubSeq(p, Max(dots), Len(p))

\* os.path.splitext(p)[1]: the last '.' of the final component and what
\* follows it, unless only dots precede it in that component
splitext_ext(p) ==
    LET seps == Positions(p, "/")
        dots == Positions(p, ".")
        sepIndex == IF seps = {} THEN 0 ELSE Max(seps)
        dotIndex == IF dots = {} THEN 0 ELSE Max(dots)
    IN IF /\ dotIndex > sepIndex
          /\ \E f \in (sepIndex + 1)..(dotIndex - 1) : Ch(p, f) # "."
       THEN SubSeq(p, dotIndex, Len(p))
       ELSE ""

(***************************************************************************)
(* The program's constants and pure functions.                             *)
(***************************************************************************)
\* connection.recv(1024)
RECV_SIZE == 1024

\* sys.argv[2]
document_root == "/www"

RESPONSE_TEMPLATE(hdrs, content) ==
    "HTTP/1.1 200 OK\n" \o hdrs \o "\n\n" \o content

NOT_ACCEPTABLE == "HTTP/1.1 406 Not Acceptable\n"

NOT_FOUND == "HTTP/1.1 404 Not Found\n"

EmptyMap == [k \in {} |-> ""]

\* the lines of request the loop of parse_headers visits before its break:
\* those after the first, up to the first that is exactly "\r"
header_lines(req) ==
    LET lines == str_split_on(req, "\n")
        stops == {k \in 2..Len(lines) : lines[k] = "\r"}
    IN 2..(IF stops = {} THEN Len(lines) ELSE Min(stops) - 1)

\* parse_headers keeping the first occurrence of a repeated key
parse_headers_first_wins(req) ==
    LET lines == str_split_on(req, "\n")
        visited == header_lines(req)
        key(k) == str_lower(str_partition(lines[k], ":")[1])
        val(k) == str_strip(str_partition(lines[k], ":")[3])
    IN [h \in {key(k) : k \in visited} |->
           val(Min({k \in visited : key(k) = h}))]

parse_headers(req) ==
    LET lines == str_split_on(req, "\n")
        visited == header_lines(req)
        key(k) == str_lower(str_partition(lines[k], ":")[1])
        val(k) == str_strip(str_partition(lines[k], ":")[3])
    IN [h \in {key(k) : k \in visited} |->
           val(Max({k \in visited : key(k) = h}))]

is_content_type_negotiable(accepts, ext) ==
    str_contains(accepts, ext) \/ accepts = "*/*"

\* line 58 raises IndexError when a piece of the cookie value has no '='
cookies_raises(value) ==
    LET pieces == str_split_on(value, ";")
    IN \E k \in 1..Len(pieces) : Len(str_split_on(pieces[k], "=")) < 2

\* the dict comprehension of line 58: name and value are the first and the
\* second '='-separated piece of each ';'-separated piece; later pieces win
parse_cookies(value) ==
    LET pieces == str_split_on(value, ";")
        name(k) == str_split_on(pieces[k], "=")[1]
        val(k) == str_split_on(pieces[k], "=")[2]
    IN [c \in {name(k) : k \in 1..Len(pieces)} |->
           val(Max({k \in 1..Len(pieces) : name(k) = c}))]

\* line 61 raises ValueError unless the start line has exactly three tokens
start_line_of(req) == str_split_on(req, "\n")[1]

\* an unpacking that takes the first three tokens and ignores the rest
unpack_raises_fewer(req) == Len(str_split(start_line_of(req))) < 3

unpack_raises(req) == Len(str_split(start_line_of(req))) # 3

\* line 63
extension_of(p) ==
    LET ext == splitext_ext(p) IN SubSeq(ext, 2, Len(ext))

(***************************************************************************)
(* The filesystem under the document root, as the environment keeps it.    *)
(***************************************************************************)
NoFile == [kind |-> "none", data |-> ""]

File(d) == [kind |-> "file", data |-> d]

Dir == [kind |-> "dir", data |-> ""]

\* request targets the clients ask for
Targets == {"/a.txt", "/e.txt", "/index.html", "/n.txt", "/"}

\* the paths the environment removes files from and creates files at
Paths == {document_root \o t : t \in Targets}

\* further targets: a file without extension, a target that climbs out of
\* the document root, a dot in a directory name, a leading dot
OddTargets == {"/f", "/../s.txt", "/x.d/f", "/.h"}

AllPaths == Paths \cup {document_root \o t : t \in OddTargets}

InitialFs ==
    [p \in AllPaths |->
        CASE p = "/www/a.txt" -> File("abc")
          [] p = "/www/e.txt" -> File("")
          [] p = "/www/index.html" -> File("<p>hello</p>")
          [] p = "/www/" -> Dir
          [] p = "/www/f" -> File("plain")
          [] p = "/www/../s.txt" -> File("secret")
          [] OTHER -> NoFile]

\* contents the environment writes into a file it creates
NewContents == {"xy"}

\* os.path.exists(p)
path_exists(files, p) == p \in DOMAIN files /\ files[p].kind # "none"

\* an open that gives an empty file for a missing path
open_raises_on_dirs(files, p) == p \in DOMAIN files /\ files[p].kind = "dir"

\* open(p) succeeds on a regular file only: IOError on a missing path
\* (ENOENT) and on a directory (EISDIR)
open_raises(files, p) == ~(p \in DOMAIN files /\ files[p].kind = "file")

(***************************************************************************)
(* Requests the clients send.                                              *)
(***************************************************************************)
CRLF == "\r\n"

StartLine(t) == "GET " \o t \o " HTTP/1.1"

\* start lines of two and of four tokens
BadStartLines == {"GET /a.txt", "GET /a.txt HTTP/1.1 x"}

AcceptLines ==
    {"", "Accept: */*\r\n", "Accept: text/html\r\n", "Accept: text/txt\r\n",
     "Accept: application/json\r\n"}

CookieLines == {"", "Cookie: a=1\r\n"}

\* cookie values of other shapes: two pieces, a piece without '=', a piece
\* with two '='
OddCookieLines ==
    {"Cookie: a=1; b=2\r\n", "Cookie: a\r\n", "Cookie: a=b=c\r\n"}

UA == "User-Agent: curl\r\n"

Request(start, hdrs) == start \o CRLF \o hdrs \o CRLF

\* the odd targets, an empty Accept value, other methods and versions
OddRequests ==
    {Request(StartLine("/f"), UA \o a \o "Cookie: a=1\r\n") :
        a \in {"Accept:\r\n", "Accept: text/html\r\n"}}
    \cup {Request(StartLine(t), UA \o "Accept: application/json\r\n" \o "Cookie: a=1\r\n") :
            t \in {"/x.d/f", "/.h"}}
    \cup {Request(StartLine("/../s.txt"), UA \o "Accept: */*\r\n" \o "Cookie: a=1\r\n")}
    \cup {Request(s, UA \o "Accept: */*\r\n" \o "Cookie: a=1\r\n") :
            s \in {"POST /a.txt HTTP/1.0", "x /n.txt y"}}

Pad8 == "aaaaaaaa"

Pad64 == Pad8 \o Pad8 \o Pad8 \o Pad8 \o Pad8 \o Pad8 \o Pad8 \o Pad8

Pad512 == Pad64 \o Pad64 \o Pad64 \o Pad64 \o Pad64 \o Pad64 \o Pad64 \o Pad64

\* a header value as long as one read
PadLine == "X-Pad: " \o Pad512 \o Pad512 \o "\r\n"

\* requests longer than one read: the Accept header after the padding, and
\* before it
LongRequests ==
    {Request(StartLine("/a.txt"), UA \o "Cookie: a=1\r\n" \o PadLine \o "Accept: */*\r\n"),
     Request(StartLine("/a.txt"), UA \o "Cookie: a=1\r\n" \o "Accept: */*\r\n" \o PadLine)}

\* every target with every Accept variant, with and without a cookie; then
\* bad start lines, a missing User-Agent, the odd cookies; then the empty
\* read, the example of the specification, bare-LF line ends with repeated
\* keys, and header-like lines after the blank line
Requests ==
    {Request(StartLine(t), UA \o a \o c) :
        t \in Targets, a \in AcceptLines, c \in CookieLines}
    \cup {Request(s, UA \o "Accept: */*\r\n" \o c) :
            s \in BadStartLines, c \in CookieLines}
    \cup {Request(StartLine("/a.txt"), a \o c) :
            a \in {"", "Accept: */*\r\n"}, c \in CookieLines}
    \cup {Request(StartLine("/a.txt"), UA \o "Accept: */*\r\n" \o c) :
            c \in OddCookieLines}
    \cup OddRequests
    \cup LongRequests
    \cup {"",
          "GET /a.txt HTTP/1.1\r\nHost: x\r\nAccept: text/plain\r\n\r\n",
          "GET /a.txt HTTP/1.1\nUser-Agent: curl\nACCEPT: text/html\nAccept : x\nCookie:a=1\naccept:  */* \n\nCookie: b=2\n",
          "GET /a.txt HTTP/1.1\r\nuser-agent:curl\r\ncookie: k=v\r\nNoColon\r\n\r\nAccept: */*\r\n"}

(***************************************************************************)
(* State.  REQUESTS, request, headers, cookies, method, uri, version,      *)
(* path, extension, file_contents, content_length and response are the     *)
(* locals of main(); cookies_bound tells whether the name cookies has      *)
(* been assigned yet.  The other variables are the environment: the        *)
(* accepted sockets still open, what was written to the current one, the   *)
(* standard output and the filesystem.                                     *)
(***************************************************************************)
VARIABLES
    pc,             \* position of main() in its loop
    fault,          \* the uncaught exception that ended the process, or ""
    REQUESTS,
    request,
    headers,
    cookies,
    cookies_bound,
    method,
    uri,
    version,
    path,
    extension,
    file_handle,    \* [open, data]: the file object of the with statement
    file_contents,
    content_length,
    response,
    accepted,       \* number of connections accept() has returned
    connections,    \* accepted connections not yet closed, by number
    wire,           \* the bytes the client of the current connection sends
    recvs,          \* recv calls made on the current connection
    sent,           \* the strings written to the current connection, in order
    printed,        \* the values of REQUESTS printed, in order
    fs,             \* path -> [kind, data]
    fs_changes,     \* changes the environment has made to fs
    watch           \* what a client that repeats one request has seen so far

vars ==
    <<pc, fault, REQUESTS, request, headers, cookies, cookies_bound, method,
      uri, version, path, extension, file_handle, file_contents,
      content_length, response, accepted, connections, wire, recvs, sent,
      printed, fs, fs_changes, watch>>

\* the locals every iteration assigns before it reads them
iteration_locals ==
    <<request, headers, method, uri, version, path, extension, file_handle,
      file_contents, content_length, response>>

env_vars == <<accepted, connections, wire, recvs, sent, printed, fs, fs_changes>>

NoHandle == [open |-> FALSE, data |-> ""]

\* no client is repeating a request
NoWatch == [probe |-> "", seen |-> FALSE, wire |-> "", sent |-> <<>>, since |-> 0]

\* the process after lines 44-50, before the first accept()
main_start ==
    /\ pc = "accept"
    /\ fault = ""
    /\ REQUESTS = 0
    /\ request = ""
    /\ headers = EmptyMap
    /\ cookies = EmptyMap
    /\ cookies_bound = FALSE
    /\ method = ""
    /\ uri = ""
    /\ version = ""
    /\ path = ""
    /\ extension = ""
    /\ file_handle = NoHandle
    /\ file_contents = ""
    /\ content_length = 0
    /\ response = ""
    /\ accepted = 0
    /\ connections = {}
    /\ wire = ""
    /\ recvs = 0
    /\ sent = <<>>
    /\ printed = <<>>
    /\ fs = InitialFs
    /\ fs_changes = 0

Init == main_start /\ watch = NoWatch

\* one client that sends the same request on every connection it makes
InitRepeat == main_start /\ \E r \in Requests : watch = [NoWatch EXCEPT !.probe = r]

(***************************************************************************)
(* main(), one action per blocking call or group of statements.            *)
(***************************************************************************)
\* line 52: listen_socket.accept() returns the next client's connection
accept_connection(w) ==
    /\ pc = "accept"
    /\ wire' = w
    /\ accepted' = accepted + 1
    /\ connections' = connections \cup {accepted + 1}
    /\ recvs' = 0
    /\ sent' = <<>>
    /\ pc' = "recv"
    /\ UNCHANGED <<fault, REQUESTS, cookies, cookies_bound, iteration_locals,
                   printed, fs, fs_changes>>

\* any client connects and sends any request
Accept ==
    /\ accepted < MaxRequests
    /\ \E w \in Requests : accept_connection(w)
    /\ UNCHANGED watch

\* a request answered 406 that binds cookies, sent first by another client
WarmUp == Request(StartLine("/n.txt"), UA \o "Cookie: a=1\r\n")

\* the repeating client connects, possibly after one other connection;
\* since is the count of filesystem changes when its current run of
\* identical requests began
AcceptRepeat ==
    /\ accepted < MaxRequests + 1
    /\ \E w \in {watch.probe} \cup (IF accepted = 0 THEN {WarmUp} ELSE {}) :
          /\ accept_connection(w)
          /\ watch' = [watch EXCEPT
                         !.since = IF watch.seen /\ watch.wire = w THEN @
                                   ELSE fs_changes]

\* a counter that counts from the iteration's start instead of adding
count_restarted(n) == 1

\* line 54: REQUESTS += 1
count_request(n) == n + 1

\* a read loop that drains the whole request
recv_all(w, n) == w

\* connection.recv(n): the first n bytes of what the client sent, or all of
\* it when that is less
recv(w, n) == SubSeq(w, 1, IF Len(w) < n THEN Len(w) ELSE n)

\* lines 53-55: one recv of at most RECV_SIZE bytes, then the counter
Recv ==
    /\ pc = "recv"
    /\ UNCHANGED watch
    /\ request' = recv(wire, RECV_SIZE)
    /\ recvs' = recvs + 1
    /\ REQUESTS' = count_request(REQUESTS)
    /\ printed' = Append(printed, count_request(REQUESTS))
    /\ pc' = "parse"
    /\ UNCHANGED <<fault, headers, cookies, cookies_bound, method, uri,
                   version, path, extension, file_handle, file_contents,
                   content_length, response, accepted, connections, wire,
                   sent, fs, fs_changes>>

\* lines 56-65 with the user-agent read by headers.get
parse_fault_lenient(req, bound) ==
    LET hs == parse_headers(req)
    IN IF "cookie" \in DOMAIN hs /\ cookies_raises(hs["cookie"])
       THEN "IndexError"
       ELSE IF "cookie" \notin DOMAIN hs /\ ~bound
       THEN "NameError"
       ELSE IF unpack_raises(req) THEN "ValueError"
       ELSE ""

\* the exception lines 56-65 raise on req, or "" when they raise none;
\* bound tells whether cookies was assigned by an earlier iteration
parse_fault(req, bound) ==
    LET hs == parse_headers(req)
    IN IF "cookie" \in DOMAIN hs /\ cookies_raises(hs["cookie"])
       THEN "IndexError"                                      \* line 58
       ELSE IF "cookie" \notin DOMAIN hs /\ ~bound
       THEN "NameError"                                       \* line 59
       ELSE IF unpack_raises(req) THEN "ValueError"           \* line 61
       ELSE IF "user-agent" \notin DOMAIN hs THEN "KeyError"  \* line 65
       ELSE ""

\* a resolution that keeps a climbing target inside the document root
resolve_path_confined(target) ==
    IF str_contains(target, "..") THEN document_root \o "/"
    ELSE document_root \o target

\* line 62: path = document_root + uri
resolve_path(target) == document_root \o target

\* what lines 56-61 compute from the request and from whether cookies is
\* already bound
parse(req, bound) ==
    LET hs == parse_headers(req)
        assigned == "cookie" \in DOMAIN hs /\ ~cookies_raises(hs["cookie"])
    IN [headers |-> hs,
        assigned |-> assigned,
        cookies |-> IF assigned THEN parse_cookies(hs["cookie"]) ELSE EmptyMap,
        fault |-> parse_fault(req, bound),
        tokens |-> str_split(start_line_of(req))]

\* the requests one recv can return
Received == {recv(w, RECV_SIZE) : w \in Requests}

\* parse, tabulated once over what can be received
parsed == [r \in Received, b \in BOOLEAN |-> parse(r, b)]

\* lines 56-65: headers, cookies, start line, path, extension, diagnostics
Parse ==
    /\ pc = "parse"
    /\ UNCHANGED watch
    /\ LET p == parsed[request, cookies_bound]
           f == p.fault
           tokens == p.tokens
       IN /\ headers' = p.headers
          /\ cookies' = IF p.assigned THEN p.cookies ELSE cookies
          /\ cookies_bound' = (cookies_bound \/ p.assigned)
          /\ fault' = f
          /\ IF f \in {"IndexError", "NameError", "ValueError"}
             THEN /\ pc' = "fault"
                  /\ UNCHANGED <<method, uri, version, path, extension>>
             ELSE /\ method' = tokens[1]
                  /\ uri' = tokens[2]
                  /\ version' = tokens[3]
                  /\ path' = resolve_path(tokens[2])
                  /\ extension' = extension_of(resolve_path(tokens[2]))
                  /\ pc' = IF f = "" THEN "dispatch" ELSE "fault"
    /\ UNCHANGED <<REQUESTS, request, file_handle, file_contents,
                   content_length, response, env_vars>>

\* dispatch with the existence check ahead of the negotiation
dispatch_exists_first(hs, ext, files, p) ==
    IF ~path_exists(files, p) THEN 404
    ELSE IF "accept" \notin DOMAIN hs
            \/ ~is_content_type_negotiable(hs["accept"], ext)
    THEN 406
    ELSE 200

\* the branch lines 66-71 take: 406, 404, or 200 (open the file)
dispatch(hs, ext, files, p) ==
    IF "accept" \notin DOMAIN hs \/ ~is_content_type_negotiable(hs["accept"], ext)
    THEN 406
    ELSE IF ~path_exists(files, p) THEN 404
    ELSE 200

\* connection.close() reached only from the 200 branch: after an error
\* response the loop goes straight back to accept
after_error_skips_close == "accept"

\* where line 68 and line 70 continue: line 77, outside the if statement
after_error == "close"

\* lines 66-71: negotiation, then the existence check
Dispatch ==
    /\ pc = "dispatch"
    /\ UNCHANGED watch
    /\ LET code == dispatch(headers, extension, fs, path)
       IN /\ sent' = IF code = 406 THEN Append(sent, NOT_ACCEPTABLE)
                     ELSE IF code = 404 THEN Append(sent, NOT_FOUND)
                     ELSE sent
          /\ pc' = IF code = 200 THEN "open" ELSE after_error
    /\ UNCHANGED <<fault, REQUESTS, cookies, cookies_bound, iteration_locals,
                   accepted, connections, wire, recvs, printed, fs, fs_changes>>

\* line 72: open(path)
Open ==
    /\ pc = "open"
    /\ UNCHANGED watch
    /\ IF open_raises(fs, path)
       THEN /\ fault' = "IOError"
            /\ pc' = "fault"
            /\ UNCHANGED file_handle
       ELSE /\ file_handle' = [open |-> TRUE, data |-> fs[path].data]
            /\ pc' = "read"
            /\ UNCHANGED fault
    /\ UNCHANGED <<REQUESTS, request, headers, cookies, cookies_bound, method,
                   uri, version, path, extension, file_contents,
                   content_length, response, env_vars>>

\* lines 39-41, which main() never calls
response_with_cookies(content) ==
    RESPONSE_TEMPLATE("Set-Cookie: HasVisited = 1;", content)

\* a response that greets the first connection of the process with a cookie
build_response_first_visit(contents) ==
    IF REQUESTS = 1 THEN RESPONSE_TEMPLATE("Set-Cookie: HasVisited = 1;", contents)
    ELSE RESPONSE_TEMPLATE("Content-Length: " \o str_of_int(Len(contents)), contents)

\* the response of line 75
build_response(contents) ==
    RESPONSE_TEMPLATE("Content-Length: " \o str_of_int(Len(contents)), contents)

\* lines 73-75: read the whole file, build the response
Read ==
    /\ pc = "read"
    /\ UNCHANGED watch
    /\ file_contents' = file_handle.data
    /\ content_length' = Len(file_handle.data)
    /\ response' = build_response(file_handle.data)
    /\ pc' = "send"
    /\ UNCHANGED <<fault, REQUESTS, request, headers, cookies, cookies_bound,
                   method, uri, version, path, extension, file_handle,
                   env_vars>>

\* a file object that is never closed: line 77 follows line 76 at once
after_send_leaves_open == "close"

\* where line 76 continues: the end of the with block, then line 77
after_send == "exit_with"

\* line 76: connection.sendall(response)
Send ==
    /\ pc = "send"
    /\ UNCHANGED watch
    /\ sent' = Append(sent, response)
    /\ pc' = after_send
    /\ UNCHANGED <<fault, REQUESTS, cookies, cookies_bound, iteration_locals,
                   accepted, connections, wire, recvs, printed, fs, fs_changes>>

\* end of the with block of line 72: the file is closed
ExitWith ==
    /\ pc = "exit_with"
    /\ UNCHANGED watch
    /\ file_handle' = [file_handle EXCEPT !.open = FALSE]
    /\ pc' = "close"
    /\ UNCHANGED <<fault, REQUESTS, request, headers, cookies, cookies_bound,
                   method, uri, version, path, extension, file_contents,
                   content_length, response, env_vars>>

\* line 77: connection.close(), and back to the top of the loop.  The
\* locals the next iteration assigns before it reads them are cleared;
\* cookies, which line 59 reads without assigning, is kept.  wire, recvs
\* and sent describe the current connection and end with it.
close_connection ==
    /\ pc = "close"
    /\ connections' = connections \ {accepted}
    /\ pc' = "accept"
    /\ request' = ""
    /\ headers' = EmptyMap
    /\ method' = ""
    /\ uri' = ""
    /\ version' = ""
    /\ path' = ""
    /\ extension' = ""
    /\ file_handle' = NoHandle
    /\ file_contents' = ""
    /\ content_length' = 0
    /\ response' = ""
    /\ wire' = ""
    /\ recvs' = 0
    /\ sent' = <<>>
    /\ UNCHANGED <<fault, REQUESTS, cookies, cookies_bound, accepted, printed,
                   fs, fs_changes>>

Close == close_connection /\ UNCHANGED watch

\* the repeating client keeps what it sent and what it got back
CloseRepeat ==
    /\ close_connection
    /\ watch' = [watch EXCEPT !.seen = TRUE, !.wire = wire, !.sent = sent]

(***************************************************************************)
(* The environment changes the filesystem at any moment of the process's   *)
(* life.                                                                   *)
(***************************************************************************)
EnvRemove ==
    /\ pc # "fault"
    /\ UNCHANGED watch
    /\ fs_changes < MaxFsChanges
    /\ \E p \in Paths :
          /\ fs[p].kind = "file"
          /\ fs' = [fs EXCEPT ![p] = NoFile]
    /\ fs_changes' = fs_changes + 1
    /\ UNCHANGED <<pc, fault, REQUESTS, cookies, cookies_bound,
                   iteration_locals, accepted, connections, wire, recvs, sent,
                   printed>>

EnvCreate ==
    /\ pc # "fault"
    /\ UNCHANGED watch
    /\ fs_changes < MaxFsChanges
    /\ \E p \in Paths, d \in NewContents :
          /\ fs[p].kind = "none"
          /\ fs' = [fs EXCEPT ![p] = File(d)]
    /\ fs_changes' = fs_changes + 1
    /\ UNCHANGED <<pc, fault, REQUESTS, cookies, cookies_bound,
                   iteration_locals, accepted, connections, wire, recvs, sent,
                   printed>>

Next ==
    \/ Accept
    \/ Recv
    \/ Parse
    \/ Dispatch
    \/ Open
    \/ Read
    \/ Send
    \/ ExitWith
    \/ Close
    \/ EnvRemove
    \/ EnvCreate

Spec == Init /\ [][Next]_vars

NextRepeat ==
    \/ AcceptRepeat
    \/ Recv
    \/ Parse
    \/ Dispatch
    \/ Open
    \/ Read
    \/ Send
    \/ ExitWith
    \/ CloseRepeat
    \/ EnvRemove
    \/ EnvCreate

SpecRepeat == InitRepeat /\ [][NextRepeat]_vars

(***************************************************************************)
(* Vocabulary of the properties.                                           *)
(***************************************************************************)
\* the handling of the current connection has ended: the response is out
\* and close() is next, or an exception ended the process
Handled == pc \in {"close", "fault"}

\* the value of the request's Accept header, when it has one
HasAccept(req) == "accept" \in DOMAIN parse_headers(req)

AcceptOf(req) == parse_headers(req)["accept"]

ThreeTokens(req) == Len(str_split(start_line_of(req))) = 3

\* well-formed: a three-token start line and the header main() reads
\* unconditionally
WellFormed(req) ==
    ThreeTokens(req) /\ "user-agent" \in DOMAIN parse_headers(req)

\* the resolved path of a request with a three-token start line
ResolvedPath(req) == document_root \o str_split(start_line_of(req))[2]

IsFileAt(p) == p \in DOMAIN fs /\ fs[p].kind = "file"

\* the 200 response carrying body
Ok200(body) ==
    "HTTP/1.1 200 OK\nContent-Length: " \o str_of_int(Len(body)) \o "\n\n" \o body

(***************************************************************************)
(* C1.  Precedence at the dispatch step: 406 when the Accept header is     *)
(* absent or does not match; otherwise 404 when the resolved path does not *)
(* exist; otherwise the 200 branch, and what that branch writes is a 200   *)
(* response.                                                               *)
(***************************************************************************)
C1_DispatchStep ==
    (pc = "dispatch" /\ pc' # "dispatch") =>
        LET no_match == \/ "accept" \notin DOMAIN headers
                        \/ /\ headers["accept"] # "*/*"
                           /\ ~str_contains(headers["accept"], extension)
            absent == path \notin DOMAIN fs \/ fs[path].kind = "none"
        IN /\ no_match =>
                sent' = <<"HTTP/1.1 406 Not Acceptable\n">> /\ pc' = "close"
           /\ (~no_match /\ absent) =>
                sent' = <<"HTTP/1.1 404 Not Found\n">> /\ pc' = "close"
           /\ (~no_match /\ ~absent) => sent' = <<>> /\ pc' = "open"

C1_SendStep ==
    (pc = "send" /\ pc' # "send") =>
        /\ Len(sent') = 1
        /\ SubSeq(sent'[1], 1, 16) = "HTTP/1.1 200 OK\n"

C2_FileServed ==
    (/\ Handled
     /\ fs_changes = 0
     /\ WellFormed(request)
     /\ HasAccept(request) /\ AcceptOf(request) = "*/*"
     /\ IsFileAt(ResolvedPath(request)))
        => sent = <<Ok200(fs[ResolvedPath(request)].data)>>

(***************************************************************************)
(* C3.  Every request with no Accept header is answered 406, whether or    *)
(* not the file exists and whatever other headers it carries or lacks.     *)
(***************************************************************************)
C3_NoAcceptIs406 ==
    (Handled /\ ThreeTokens(request) /\ ~HasAccept(request))
        => sent = <<"HTTP/1.1 406 Not Acceptable\n">>

(***************************************************************************)
(* C4.  Negotiation accepts exactly when the Accept value is */* or        *)
(* contains the extension; so every request whose Accept value is not */*  *)
(* and does not contain the target's extension is answered 406, even if    *)
(* the file exists.                                                        *)
(***************************************************************************)
C4_Unacceptable(req) ==
    /\ ThreeTokens(req)
    /\ HasAccept(req)
    /\ AcceptOf(req) # "*/*"
    /\ ~str_contains(AcceptOf(req), extension_of(ResolvedPath(req)))

\* the decision rule, on every request of the model that has a target and
\* an Accept header
C4_Rule ==
    \A r \in Requests :
        (ThreeTokens(r) /\ HasAccept(r)) =>
            (is_content_type_negotiable(AcceptOf(r), extension_of(ResolvedPath(r)))
                <=> ~C4_Unacceptable(r))

C4_MismatchIs406 ==
    /\ C4_Rule
    /\ (Handled /\ C4_Unacceptable(request))
          => sent = <<"HTTP/1.1 406 Not Acceptable\n">>

(***************************************************************************)
(* C5.  The only requests that stop the listener loop are those whose      *)
(* start line has fewer than three tokens and those that lack the header   *)
(* main() reads unconditionally; every other connection is answered,       *)
(* closed, and followed by the next accept.                                *)
(***************************************************************************)
C5_OnlyMalformedStops ==
    pc = "fault" =>
        \/ Len(str_split(start_line_of(request))) < 3
        \/ "user-agent" \notin DOMAIN parse_headers(request)

(***************************************************************************)
(* C6.  One connection at a time, in the order accept, one recv of at most *)
(* 1024 bytes, parse, one response write, close: at most one accepted      *)
(* connection is open, accept is not called while one is open, and a       *)
(* connection is closed only after its one response has been written.      *)
(***************************************************************************)
C6_State ==
    /\ Cardinality(connections) <= 1
    /\ recvs <= 1
    /\ Len(request) <= 1024
    /\ Len(sent) <= 1
    /\ Len(sent) = 1 => recvs = 1 /\ accepted \in connections
    /\ pc \in {"parse", "dispatch"} => recvs = 1 /\ sent = <<>>

C6_Step ==
    /\ accepted' # accepted => connections = {} /\ connections' = {accepted'}
    /\ connections' # connections /\ accepted' = accepted =>
          /\ connections' = {}
          /\ recvs = 1
          /\ Len(sent) = 1
    /\ recvs' > recvs => sent = <<>> /\ accepted \in connections'
    /\ Len(sent') > Len(sent) => recvs = 1 /\ accepted \in connections'

C6_OneAtATime == [](C6_State) /\ [][C6_Step]_vars

\* the second connection is being answered with the first one closed
C6_Witness ==
    /\ accepted = 2
    /\ connections = {2}
    /\ Len(sent) = 1
    /\ pc = "close"

(***************************************************************************)
(* C7.  Nothing but the request counter passes from one connection to the  *)
(* next: a request that main() handles without fault is handled without    *)
(* fault by a fresh process too, and the cookie mapping main() sees while  *)
(* handling a connection comes from that connection's cookie header.       *)
(***************************************************************************)
C7_NothingCarried ==
    pc \in {"dispatch", "open", "read", "send", "exit_with", "close"} =>
        /\ parse_fault(request, FALSE) = ""
        /\ "cookie" \in DOMAIN headers
        /\ cookies = parse_cookies(headers["cookie"])

(***************************************************************************)
(* C8.  Every response written is one of three texts: the 200 status line, *)
(* the one header Content-Length, a blank line and the bytes read from the *)
(* file; the bare 404 status line; or the bare 406 status line.            *)
(***************************************************************************)
\* r is the 200 response whose body is its last n bytes
C8_Is200(r, n) ==
    r = "HTTP/1.1 200 OK\nContent-Length: " \o str_of_int(n) \o "\n\n"
            \o SubSeq(r, Len(r) - n + 1, Len(r))

C8_IsError(r) ==
    r = "HTTP/1.1 404 Not Found\n" \/ r = "HTTP/1.1 406 Not Acceptable\n"

C8_ThreeShapes ==
    \A i \in 1..Len(sent) :
        /\ \/ C8_IsError(sent[i])
           \/ \E n \in 0..Len(sent[i]) : C8_Is200(sent[i], n)
        /\ (pc \in {"exit_with", "close"} /\ ~C8_IsError(sent[i])) =>
              /\ C8_Is200(sent[i], Len(file_handle.data))
              /\ SubSeq(sent[i], Len(sent[i]) - Len(file_handle.data) + 1,
                        Len(sent[i])) = file_handle.data

\* a 200 response with a two-digit Content-Length is on the wire
C8_Witness ==
    /\ pc = "close"
    /\ sent = <<"HTTP/1.1 200 OK\nContent-Length: 12\n\n<p>hello</p>">>

(***************************************************************************)
(* C9.  parse_headers maps exactly the lines after the start line and      *)
(* before the first line that is a lone carriage return: each is split at  *)
(* its first colon, the key lower-cased, the value stripped; a repeated    *)
(* key keeps its last value; every key is lower-case.  The request         *)
(* "GET /a.txt HTTP/1.1\r\nHost: x\r\nAccept: text/plain\r\n\r\n" gives   *)
(* {host: x, accept: text/plain}.                                          *)
(***************************************************************************)
\* line has key h: h is the lower-cased text before its first colon
C9_KeyIs(line, h) ==
    \E i \in 1..(Len(line) + 1) :
        /\ i <= Len(line) => Ch(line, i) = ":"
        /\ \A j \in 1..(i - 1) : Ch(line, j) # ":"
        /\ h = str_lower(SubSeq(line, 1, i - 1))

\* line has value v: v is the text after its first colon, stripped
C9_ValueIs(line, v) ==
    \E i \in 1..(Len(line) + 1) :
        /\ i <= Len(line) => Ch(line, i) = ":"
        /\ \A j \in 1..(i - 1) : Ch(line, j) # ":"
        /\ v = str_strip(SubSeq(line, i + 1, Len(line)))

C9_Example == "GET /a.txt HTTP/1.1\r\nHost: x\r\nAccept: text/plain\r\n\r\n"

C9_ExampleParsed ==
    /\ DOMAIN parse_headers(C9_Example) = {"host", "accept"}
    /\ parse_headers(C9_Example)["host"] = "x"
    /\ parse_headers(C9_Example)["accept"] = "text/plain"

\* checked where line 56 has just assigned headers: at the dispatch step,
\* or at the fault that lines 58-65 raised
C9_ParseHeaders ==
    /\ C9_ExampleParsed
    /\ (pc = "dispatch" \/ (pc = "fault" /\ fault # "IOError")) =>
          LET L == str_split_on(request, "\n")
              H == {k \in 2..Len(L) : \A j \in 2..k : L[j] # "\r"}
          IN /\ \A k \in H : \E h \in DOMAIN headers : C9_KeyIs(L[k], h)
             /\ \A h \in DOMAIN headers :
                   /\ \E k \in H :
                         /\ C9_KeyIs(L[k], h)
                         /\ C9_ValueIs(L[k], headers[h])
                         /\ \A m \in H : m > k => ~C9_KeyIs(L[m], h)
                   /\ \A i \in 1..Len(h) : Positions(UpperCase, Ch(h, i)) = {}

\* a request that repeats a key, in two spellings, has been parsed
C9_Witness ==
    /\ pc = "dispatch"
    /\ request = "GET /a.txt HTTP/1.1\nUser-Agent: curl\nACCEPT: text/html\nAccept : x\nCookie:a=1\naccept:  */* \n\nCookie: b=2\n"
    /\ DOMAIN headers = {"user-agent", "accept", "accept ", "cookie", ""}
    /\ headers["accept"] = "*/*"
    /\ headers["cookie"] = "b=2"

(***************************************************************************)
(* C10.  The request counter starts at 0, never decreases, and grows by    *)
(* one per accepted connection: the value printed for a connection is the  *)
(* number of connections accepted so far, also for a connection whose      *)
(* handling then faults.                                                   *)
(***************************************************************************)
C10_State ==
    /\ REQUESTS = IF pc = "recv" THEN accepted - 1 ELSE accepted
    /\ Len(printed) = REQUESTS
    /\ \A i \in 1..Len(printed) : printed[i] = i
    /\ pc = "fault" => printed[Len(printed)] = accepted

C10_Step ==
    \/ REQUESTS' = REQUESTS
    \/ REQUESTS' = REQUESTS + 1 /\ pc = "recv" /\ printed' = Append(printed, accepted)

C10_Counter == (REQUESTS = 0) /\ [](C10_State) /\ [][C10_Step]_vars

\* the second connection faulted after its count was printed
C10_Witness ==
    /\ pc = "fault"
    /\ accepted = 2
    /\ REQUESTS = 2
    /\ printed = <<1, 2>>

(***************************************************************************)
(* C11.  The same request on two successive connections, with no change to *)
(* the filesystem since the first of them was accepted, gets the same      *)
(* bytes on the second connection as on the first.                         *)
(***************************************************************************)
C11_Repeated ==
    /\ watch.seen
    /\ watch.wire = wire
    /\ fs_changes = watch.since

C11_Idempotent ==
    (Handled /\ C11_Repeated) => (pc = "close" /\ sent = watch.sent)

\* a file served twice to a client that sends no cookie, after another
\* client's connection
C11_Witness ==
    /\ pc = "close"
    /\ C11_Repeated
    /\ accepted = 3
    /\ "cookie" \notin DOMAIN headers
    /\ watch.sent = <<Ok200("abc")>>
    /\ sent = watch.sent

(***************************************************************************)
(* C12.  As claimed: the extension is what follows the last '.' of the     *)
(* resolved path, wherever that '.' lies, and is empty only when the path  *)
(* has no '.'.  As the code has it: the extension is what follows the last *)
(* '.' of the final component of the resolved path, provided a character   *)
(* other than '.' precedes that '.' within the component; otherwise it is  *)
(* empty.                                                                  *)
(***************************************************************************)
\* the text after the last '.' of p, or "" when p has none
C12_AfterLastDot(p) ==
    IF Positions(p, ".") = {} THEN ""
    ELSE LET i == CHOOSE k \in Positions(p, ".") :
                      \A j \in (k + 1)..Len(p) : Ch(p, j) # "."
         IN SubSeq(p, i + 1, Len(p))

\* the final component of p: what follows its last '/'
C12_Component(p) ==
    LET k == CHOOSE i \in 0..Len(p) :
                 /\ i = 0 \/ Ch(p, i) = "/"
                 /\ \A j \in (i + 1)..Len(p) : Ch(p, j) # "/"
    IN SubSeq(p, k + 1, Len(p))

\* e is the extension of the component c
C12_ExtIs(c, e) ==
    \/ \E i \in 1..Len(c) :
          /\ Ch(c, i) = "."
          /\ e = SubSeq(c, i + 1, Len(c))
          /\ ~str_contains(e, ".")
          /\ \E j \in 1..(i - 1) : Ch(c, j) # "."
    \/ /\ e = ""
       /\ \A i \in 1..Len(c) : Ch(c, i) = "." => \A j \in 1..(i - 1) : Ch(c, j) = "."

\* the claim as stated
C12_LastDotOfPath == path # "" => extension = C12_AfterLastDot(path)

\* the claim as amended
C12_LastDotOfComponent ==
    path # "" => C12_ExtIs(C12_Component(path), extension)

\* a '.' in a directory name gives no extension
C12_Witness ==
    /\ pc = "dispatch"
    /\ path = "/www/x.d/f"
    /\ extension = ""

(***************************************************************************)
(* C13.  The path is the document root followed by the request target,     *)
(* character for character; the existence check and the open act on that   *)
(* very path; a target containing ".." is resolved and dispatched like any *)
(* other.                                                                  *)
(***************************************************************************)
\* req asks for target t with the usual method and version
C13_Asks(req, t) ==
    LET line == "GET " \o t \o " HTTP/1.1\r\n"
    IN Len(req) >= Len(line) /\ SubSeq(req, 1, Len(line)) = line

C13_State ==
    \A t \in Targets \cup OddTargets :
        (C13_Asks(request, t) /\ pc \in {"dispatch", "open", "read", "send", "exit_with", "close"})
            => path = "/www" \o t

C13_Step ==
    /\ (pc = "dispatch" /\ pc' = "open") => (path \in DOMAIN fs /\ fs[path].kind # "none")
    /\ (pc = "dispatch" /\ sent' = <<NOT_FOUND>>)
           => (path \notin DOMAIN fs \/ fs[path].kind = "none")
    /\ (pc = "open" /\ pc' = "read") => (IsFileAt(path) /\ file_handle'.data = fs[path].data)

C13_PathVerbatim == [](C13_State) /\ [][C13_Step]_vars

\* a file above the document root was served
C13_Witness ==
    /\ pc = "close"
    /\ C13_Asks(request, "/../s.txt")
    /\ path = "/www/../s.txt"
    /\ sent = <<Ok200("secret")>>

(***************************************************************************)
(* C14.  On the 200 path the file is opened only after the existence check *)
(* has succeeded, it is read in full before anything is written to the     *)
(* connection, and it is closed before the connection is closed.  On the   *)
(* 406 and 404 paths no file is opened.                                    *)
(***************************************************************************)
C14_State ==
    /\ file_handle.open => pc \in {"read", "send", "exit_with"}
    /\ pc \in {"open", "read", "send"} => sent = <<>>
    /\ pc = "send" => (file_contents = file_handle.data /\ response = Ok200(file_handle.data))
    /\ (sent # <<>> /\ C8_IsError(sent[1])) => file_handle = NoHandle

C14_Step ==
    /\ (~file_handle.open /\ file_handle'.open) => pc = "open"
    /\ (pc # "open" /\ pc' = "open")
           => (pc = "dispatch" /\ path \in DOMAIN fs /\ fs[path].kind # "none")
    /\ (accepted \in connections /\ accepted \notin connections')
           => (~file_handle.open /\ ~file_handle'.open)

C14_FileLifetime == [](C14_State) /\ [][C14_Step]_vars

\* the file has been opened, read, sent and closed; the connection is
\* still open
C14_Witness ==
    /\ pc = "close"
    /\ accepted \in connections
    /\ sent = <<Ok200("<p>hello</p>")>>
    /\ file_handle = [open |-> FALSE, data |-> "<p>hello</p>"]

(***************************************************************************)
(* C15.  A request whose start line has fewer than three tokens, or that   *)
(* has no user-agent header, ends in a fault: nothing has been written to  *)
(* its connection, the connection has not been closed, the counter has     *)
(* counted it, and no connection is accepted afterwards.                   *)
(***************************************************************************)
\* the receivable requests the claim is about
C15_Faulty ==
    {r \in Received :
        \/ Len(str_split(start_line_of(r))) < 3
        \/ "user-agent" \notin DOMAIN parse_headers(r)}

C15_State ==
    /\ (request \in C15_Faulty /\ pc \notin {"accept", "recv", "parse"}) => pc = "fault"
    /\ pc = "fault" =>
          /\ sent = <<>>
          /\ accepted \in connections
          /\ REQUESTS = accepted

C15_Step ==
    pc = "fault" => (pc' = "fault" /\ accepted' = accepted /\ connections' = connections
                     /\ sent' = sent)

C15_FaultState == [](C15_State) /\ [][C15_Step]_vars

\* the second connection lacked a user-agent header; its cookie header
\* and start line were in order
C15_Witness ==
    /\ pc = "fault"
    /\ fault = "KeyError"
    /\ request \in C15_Faulty
    /\ accepted = 2
    /\ REQUESTS = 2
    /\ connections = {2}
    /\ sent = <<>>

(***************************************************************************)
(* C16.  When the file at the path is removed after the existence check    *)
(* has succeeded and before the open, the connection gets neither a 404    *)
(* nor a 200: the open faults, nothing is written, the connection stays    *)
(* unclosed and no further connection is accepted.                         *)
(***************************************************************************)
\* the existence check has succeeded, the open is next, the file is gone
C16_Removed == pc = "open" /\ fs[path].kind = "none"

C16_Step ==
    /\ (C16_Removed /\ pc' # "open")
           => (pc' = "fault" /\ fault' = "IOError" /\ sent' = <<>>
               /\ accepted' \in connections' /\ file_handle' = NoHandle)
    /\ (pc = "fault" /\ fault = "IOError")
           => (pc' = "fault" /\ sent' = <<>> /\ connections' = connections
               /\ accepted' = accepted)

C16_RemovedBeforeOpen == [][C16_Step]_vars

\* the open of a file removed in the window has faulted
C16_Witness ==
    /\ pc = "fault"
    /\ fault = "IOError"
    /\ fs[path].kind = "none"
    /\ fs_changes = 1
    /\ sent = <<>>
    /\ accepted \in connections

(***************************************************************************)
(* C17.  With a cookie header the cookie mapping has, for each piece of    *)
(* the value between ';', the text before the piece's first '=' as name    *)
(* and all the text after that first '=' as value.                         *)
(***************************************************************************)
\* the mapping the claim describes, a later piece winning over an earlier
\* one of the same name
C17_Claimed(value) ==
    LET pieces == str_split_on(value, ";")
        name(k) == str_partition(pieces[k], "=")[1]
        val(k) == str_partition(pieces[k], "=")[3]
    IN [c \in {name(k) : k \in 1..Len(pieces)} |->
           val(CHOOSE k \in 1..Len(pieces) :
                   name(k) = c /\ \A j \in (k + 1)..Len(pieces) : name(j) # c)]

C17_FirstEqualsOnly ==
    (pc = "dispatch" /\ "cookie" \in DOMAIN headers)
        => cookies = C17_Claimed(headers["cookie"])

(***************************************************************************)
(* C18.  The request handled is what one recv returned: the first 1024     *)
(* bytes the client sent, or all of them when they are fewer.  A request   *)
(* whose Accept header starts after byte 1024 has no accept key in the     *)
(* header mapping and is answered 406, as a request without the header is. *)
(***************************************************************************)
\* the requests whose only Accept header starts after the first 1024 bytes
C18_Late ==
    {w \in Requests :
        /\ str_contains(w, "\nAccept:")
        /\ Len(w) > 1024
        /\ ~str_contains(SubSeq(w, 1, 1024), "\nAccept:")}

C18_OneRecv ==
    /\ recvs <= 1
    /\ pc \notin {"accept", "recv"} =>
          /\ Len(request) <= 1024
          /\ request = SubSeq(wire, 1, Len(request))
          /\ Len(request) < 1024 => request = wire
    /\ (wire \in C18_Late /\ pc \in {"dispatch", "open", "read", "send", "exit_with", "close"})
          => ("accept" \notin DOMAIN headers /\ pc \in {"dispatch", "close"})
    /\ (wire \in C18_Late /\ pc = "close") => sent = <<NOT_ACCEPTABLE>>

\* an existing file asked for with Accept: */* after byte 1024
C18_Witness ==
    /\ pc = "close"
    /\ wire \in C18_Late
    /\ Len(wire) > 1024
    /\ Len(request) = 1024
    /\ IsFileAt(path)
    /\ sent = <<NOT_ACCEPTABLE>>

(***************************************************************************)
(* C19.  A request whose resolved path has the empty extension and whose   *)
(* Accept header is present, whatever its value, is never answered 406:    *)
(* it is answered 404 when nothing exists at the path and 200 when         *)
(* something does.  Stated for requests that have a user-agent header,     *)
(* with the filesystem as it was at the start.                             *)
(***************************************************************************)
C19_NoExtension ==
    /\ path # ""
    /\ extension = ""
    /\ "accept" \in DOMAIN headers
    /\ "user-agent" \in DOMAIN headers

C19_ByExistenceAlone ==
    (Handled /\ fs_changes = 0 /\ C19_NoExtension)
        => /\ pc = "close"
           /\ sent = <<IF fs[path].kind = "none" THEN NOT_FOUND
                       ELSE Ok200(fs[path].data)>>

(***************************************************************************)
(* C20.  A request is dispatched only when its start line has exactly      *)
(* three whitespace-separated tokens; with more than three it faults as    *)
(* with fewer, nothing written.  Of the three tokens only the second, the  *)
(* target, bears on the response: the method and the version do not.       *)
(***************************************************************************)
C20_Tokens(req) == Len(str_split(start_line_of(req)))

C20_Dispatched == pc \in {"dispatch", "open", "read", "send", "exit_with", "close"}

C20_State ==
    /\ C20_Dispatched =>
          /\ C20_Tokens(request) = 3
          /\ <<method, uri, version>> = str_split(start_line_of(request))
    /\ (C20_Tokens(request) > 3 /\ pc \notin {"accept", "recv", "parse"})
          => (pc = "fault" /\ sent = <<>>)

\* what the dispatch step does is a function of the headers, the target
\* and the filesystem
C20_Step ==
    (pc = "dispatch" /\ pc' # "dispatch") =>
        LET refused ==
                \/ "accept" \notin DOMAIN headers
                \/ ~(str_contains(headers["accept"], extension) \/ headers["accept"] = "*/*")
            missing == fs["/www" \o uri].kind = "none"
        IN /\ sent' = IF refused THEN <<NOT_ACCEPTABLE>>
                      ELSE IF missing THEN <<NOT_FOUND>>
                      ELSE <<>>
           /\ pc' = IF refused \/ missing THEN "close" ELSE "open"

C20_StartLine == [](C20_State) /\ [][C20_Step]_vars

\* a file served to a request with another method and another version
C20_Witness ==
    /\ pc = "close"
    /\ method = "POST"
    /\ version = "HTTP/1.0"
    /\ sent = <<Ok200("abc")>>

====
